---- MODULE Spec2Model ----
(***************************************************************************)
(* The car racing simulator of "practice codes/cargame.py": the kinematics *)
(* of Car.update, the colour sampling of Track.is_on_track, the finish     *)
(* line test of Track.check_finish_line_cross and the lap bookkeeping of   *)
(* Game.update.                                                            *)
(*                                                                         *)
(* Numbers.  The source computes speed and position in binary floating     *)
(* point.  The model computes them in decimal fixed point: a value v of    *)
(* the source is the integer v * SCALE, and each product the source        *)
(* rounds (speed * 0.95, sin * speed, cos * speed) is rounded to the       *)
(* nearest unit.  Angles are whole degrees (the source only ever adds      *)
(* +4 or -4 to 0).  Timestamps are whole clock units.                      *)
(*                                                                         *)
(* Construction.  Track.__init__ calls _draw_track (line 122) before it    *)
(* assigns finish_line and finish_line_color (lines 123-124), which line   *)
(* 163 of _draw_track reads; TrackInit and Executed follow the statements   *)
(* of the constructor in the order the source runs them.  The state        *)
(* machine describes the game once it runs: the surface is the one lines   *)
(* 127-163 paint with the finish line attributes of lines 123-124.         *)
(***************************************************************************)
EXTENDS Integers, Sequences, FiniteSets

VARIABLES
  car,             \* Game.car: [x, y, angle, speed]
  start_time,      \* Game.start_time: None or <<timestamp>>
  lap_time,        \* Game.lap_time: the last lap's duration, 0 at construction
  best_lap_time,   \* Game.best_lap_time: None or <<duration>>
  laps_completed,  \* Game.laps_completed
  prev_car_rect,   \* Game.prev_car_rect
  clock,           \* the last value time.time() returned
  ticks,           \* calls of Game.update so far
  recorded,        \* history: every lap duration Game.update computed, in order
  last             \* history: what the last call of Game.update saw

vars == <<car, start_time, lap_time, best_lap_time, laps_completed,
          prev_car_rect, clock, ticks, recorded, last>>

-----------------------------------------------------------------------------
(* Bounds of the exploration *)

MaxTicks == 4

MaxLapTicks == 6

MaxClockStep == 2

MaxClockBack == 1

-----------------------------------------------------------------------------
(* Arithmetic *)

SCALE == 10000

Min(a, b) == IF a < b THEN a ELSE b

Max(a, b) == IF a > b THEN a ELSE b

Abs(a) == IF a < 0 THEN -a ELSE a

\* n / d rounded to the nearest integer (d > 0), halves away from zero
RoundDiv(n, d) ==
  IF n >= 0 THEN (2 * n + d) \div (2 * d) ELSE -((2 * (-n) + d) \div (2 * d))

\* int(v) of a fixed-point value: truncation toward zero
Trunc(v) == IF v >= 0 THEN v \div SCALE ELSE -((-v) \div SCALE)

\* Python's None, and a value v that is not None
None == << >>

Some(v) == <<v>>

\* the truth value Python's `or` tests: None and 0 are false
Truthy(v) == v # None /\ v[1] # 0

-----------------------------------------------------------------------------
(* Constants of the program *)

WIDTH == 800

HEIGHT == 600

GRAY == <<100, 100, 100>>

WHITE == <<255, 255, 255>>

GREEN == <<0, 200, 0>>

RED == <<200, 0, 0>>

max_speed == 7 * SCALE

acceleration == 1500

deceleration == 3000

friction == 500

turn_speed == 4

length == 64

width == 32

road_width == 180

\* Game.update line 224: speed *= 0.95, as a fraction of 100
PenaltyPercent == 95

\* color_close's default tol
Tolerance == 30

-----------------------------------------------------------------------------
(* math.sin and math.cos of whole even degrees, times SCALE *)

\* sin of 0, 2, 4, ..., 90 degrees
SinTab ==
  << 0, 349, 698, 1045, 1392, 1736, 2079, 2419, 2756, 3090, 3420, 3746,
     4067, 4384, 4695, 5000, 5299, 5592, 5878, 6157, 6428, 6691, 6947,
     7193, 7431, 7660, 7880, 8090, 8290, 8480, 8660, 8829, 8988, 9135,
     9272, 9397, 9511, 9613, 9703, 9781, 9848, 9903, 9945, 9976, 9994,
     10000 >>

Sin(a) ==
  LET r == a % 360
  IN  IF r <= 90 THEN SinTab[(r \div 2) + 1]
      ELSE IF r <= 180 THEN SinTab[((180 - r) \div 2) + 1]
      ELSE IF r <= 270 THEN -SinTab[((r - 180) \div 2) + 1]
      ELSE -SinTab[((360 - r) \div 2) + 1]

Cos(a) == Sin(a + 90)

-----------------------------------------------------------------------------
(* pygame.Rect *)

Rect(x, y, w, h) == [x |-> x, y |-> y, w |-> w, h |-> h]

\* Rect.colliderect: the two rectangles overlap in a region of positive area
Colliderect(a, b) ==
  /\ a.w > 0 /\ a.h > 0 /\ b.w > 0 /\ b.h > 0
  /\ a.x < b.x + b.w /\ b.x < a.x + a.w
  /\ a.y < b.y + b.h /\ b.y < a.y + a.h

\* whether pixel (px, py) lies in the rectangle
InRect(px, py, r) ==
  /\ r.x <= px /\ px < r.x + r.w
  /\ r.y <= py /\ py < r.y + r.h

-----------------------------------------------------------------------------
(* Track *)

center_path ==
  << <<WIDTH \div 2, HEIGHT \div 4>>,
     <<WIDTH \div 2 + 160, HEIGHT \div 2 - 100>>,
     <<WIDTH \div 2 + 180, HEIGHT \div 2 + 50>>,
     <<WIDTH \div 2 + 140, HEIGHT \div 2 + 150>>,
     <<WIDTH \div 2, HEIGHT \div 2 + 210>>,
     <<WIDTH \div 2 - 130, HEIGHT \div 2 + 180>>,
     <<WIDTH \div 2 - 160, HEIGHT \div 2 + 100>>,
     <<WIDTH \div 2 - 110, HEIGHT \div 2 - 30>>,
     <<WIDTH \div 2, HEIGHT \div 4>> >>

finish_line ==
  Rect(WIDTH \div 2 - 5, HEIGHT \div 4 - road_width \div 2, 10, road_width)

\* track_poly of _draw_track: points_left followed by points_right reversed,
\* each point center_path[i] offset by road_width / 2 along the normal of the
\* segment leaving it, as pixel coordinates
track_poly ==
  << <<373, 235>>, <<470, 211>>, <<496, 316>>, <<504, 367>>, <<420, 422>>,
     <<354, 448>>, <<324, 432>>, <<356, 330>>, <<400, 150>>,
     <<400, 150>>, <<223, 209>>, <<155, 367>>, <<185, 511>>, <<379, 597>>,
     <<575, 532>>, <<663, 383>>, <<649, 188>>, <<426, 64>> >>

\* whether a horizontal ray from (px, py) to the right crosses the edge p-q
EdgeCrossed(px, py, p, q) ==
  /\ (p[2] > py) # (q[2] > py)
  /\ IF q[2] > p[2]
       THEN (px - p[1]) * (q[2] - p[2]) < (py - p[2]) * (q[1] - p[1])
       ELSE (px - p[1]) * (q[2] - p[2]) > (py - p[2]) * (q[1] - p[1])

\* pygame.draw.polygon fills the pixels an odd number of edges enclose
InPolygon(px, py) ==
  LET n == Len(track_poly)
      crossed == { i \in 1..n :
                     EdgeCrossed(px, py, track_poly[i], track_poly[(i % n) + 1]) }
  IN  Cardinality(crossed) % 2 = 1

\* The colour _draw_track leaves at pixel (px, py): green, the gray road
\* polygon over it, the red finish line over that.  The white dashes of
\* _draw_dashed_line lie on the road polygon or under the finish line, where
\* is_on_track answers as it does for the colour modelled here.
SurfaceColor(px, py) ==
  IF InRect(px, py, finish_line) THEN RED
  ELSE IF InPolygon(px, py) THEN GRAY
  ELSE GREEN

\* line 189 with <= tol for < tol
color_closeInclusive(c1, c2) == \A i \in 1..3 : Abs(c1[i] - c2[i]) <= Tolerance

color_close(c1, c2) == \A i \in 1..3 : Abs(c1[i] - c2[i]) < Tolerance

\* is_on_track line 190, on the colour get_at returned
on_track_color(color) == color_close(color, GRAY) \/ color_close(color, WHITE)

\* Surface.get_at raises IndexError outside the surface
InSurface(px, py) == 0 <= px /\ px < WIDTH /\ 0 <= py /\ py < HEIGHT

\* lines 185-192 with the handler of lines 191-192 returning True
is_on_trackFailsOpen(x, y) ==
  IF InSurface(Trunc(x), Trunc(y))
    THEN on_track_color(SurfaceColor(Trunc(x), Trunc(y)))
    ELSE TRUE

is_on_track(x, y) ==
  LET px == Trunc(x)
      py == Trunc(y)
  IN  IF InSurface(px, py)
        THEN on_track_color(SurfaceColor(px, py))
        ELSE FALSE

\* the colour is_on_track samples for position (x, y): None when get_at raises
SampledColor(x, y) ==
  IF InSurface(Trunc(x), Trunc(y))
    THEN Some(SurfaceColor(Trunc(x), Trunc(y)))
    ELSE None

\* line 195 without the test of prev_rect
check_finish_line_crossAnyPrev(rect, prev_rect) ==
  Colliderect(finish_line, rect)

check_finish_line_cross(rect, prev_rect) ==
  Colliderect(finish_line, rect) /\ ~Colliderect(finish_line, prev_rect)

-----------------------------------------------------------------------------
(* Track.__init__, statement by statement: the attributes of self each     *)
(* statement reads and the attributes it assigns.  Reading an attribute    *)
(* that no statement has assigned raises AttributeError.                   *)

Stmt(line, reads, assigns) == [line |-> line, reads |-> reads, assigns |-> assigns]

\* the statements of _draw_track, lines 127-163
DrawTrack ==
  << Stmt(127, {"surface"}, {}),
     Stmt(131, {"center_path", "road_width"}, {}),
     Stmt(156, {"surface", "track_color"}, {}),
     Stmt(158, {"center_path", "surface"}, {}),
     Stmt(163, {"surface", "finish_line_color", "finish_line"}, {}) >>

\* the statements of Track.__init__ in the order they run: line 122 runs
\* those of _draw_track
TrackInit ==
  << Stmt(109, {}, {"surface"}),
     Stmt(110, {"surface"}, {}),
     Stmt(111, {}, {"track_color"}),
     Stmt(112, {}, {"road_width"}),
     Stmt(114, {}, {"center_path"}),
     Stmt(120, {"center_path"}, {}) >>
  \o DrawTrack \o
  << Stmt(123, {"road_width"}, {"finish_line"}),
     Stmt(124, {}, {"finish_line_color"}) >>

RECURSIVE Executed(_, _)
\* running the statements stmts on an object with the attributes attrs: the
\* attributes assigned at the end, and the line that raised (0 when none did)
Executed(stmts, attrs) ==
  IF stmts = << >> THEN [attrs |-> attrs, raised |-> 0]
  ELSE IF ~(Head(stmts).reads \subseteq attrs)
    THEN [attrs |-> attrs, raised |-> Head(stmts).line]
    ELSE Executed(Tail(stmts), attrs \cup Head(stmts).assigns)

-----------------------------------------------------------------------------
(* Car *)

\* pygame.key.get_pressed, read as the four controls Car.update tests:
\* up is K_UP or K_w, down is K_DOWN or K_s, left is K_LEFT or K_a,
\* right is K_RIGHT or K_d
Keys == [up : BOOLEAN, down : BOOLEAN, left : BOOLEAN, right : BOOLEAN]

NoKeys == [up |-> FALSE, down |-> FALSE, left |-> FALSE, right |-> FALSE]

\* lines 76-84 with the friction of line 82 applied at speed 0 as well
ThrottleDriftsAtRest(speed, keys) ==
  IF keys.up THEN speed + acceleration
  ELSE IF keys.down THEN speed - deceleration
  ELSE IF speed >= 0 THEN speed - friction
  ELSE speed + friction

\* Car.update lines 76-84
Throttle(speed, keys) ==
  IF keys.up THEN speed + acceleration
  ELSE IF keys.down THEN speed - deceleration
  ELSE IF speed > 0 THEN speed - friction
  ELSE IF speed < 0 THEN speed + friction
  ELSE speed

\* line 86 with the reverse limit written as -max_speed
ClampSpeedFullReverse(speed) == Max(Min(speed, max_speed), -max_speed)

\* Car.update line 86
ClampSpeed(speed) == Max(Min(speed, max_speed), -(max_speed \div 2))

\* lines 88-90 without the test speed != 0
SteerLeftAtRest(angle, speed, keys) ==
  IF keys.left
    THEN angle + turn_speed * (IF speed > 0 THEN 1 ELSE -1)
    ELSE angle

\* Car.update lines 88-90
SteerLeft(angle, speed, keys) ==
  IF keys.left /\ speed # 0
    THEN angle + turn_speed * (IF speed > 0 THEN 1 ELSE -1)
    ELSE angle

\* lines 92-94 with the direction of line 93 fixed at -1
SteerRightNoFlip(angle, speed, keys) ==
  IF keys.right /\ speed # 0 THEN angle - turn_speed ELSE angle

\* Car.update lines 92-94
SteerRight(angle, speed, keys) ==
  IF keys.right /\ speed # 0
    THEN angle + turn_speed * (IF speed > 0 THEN -1 ELSE 1)
    ELSE angle

\* lines 96-98 without the clamps of lines 100-101
MoveUnclamped(x, y, angle, speed) ==
  [x |-> x + RoundDiv(-Sin(angle) * speed, SCALE),
   y |-> y + RoundDiv(-Cos(angle) * speed, SCALE)]

\* Car.update lines 96-101
Move(x, y, angle, speed) ==
  LET nx == x + RoundDiv(-Sin(angle) * speed, SCALE)
      ny == y + RoundDiv(-Cos(angle) * speed, SCALE)
  IN  [x |-> Max(0, Min(WIDTH * SCALE, nx)),
       y |-> Max(0, Min(HEIGHT * SCALE, ny))]

CarUpdate(c, keys) ==
  LET speed == ClampSpeed(Throttle(c.speed, keys))
      angle == SteerRight(SteerLeft(c.angle, speed, keys), speed, keys)
      pos   == Move(c.x, c.y, angle, speed)
  IN  [x |-> pos.x, y |-> pos.y, angle |-> angle, speed |-> speed]

\* Car.__init__
NewCar(x, y) == [x |-> x, y |-> y, angle |-> 0, speed |-> 0]

-----------------------------------------------------------------------------
(* Game *)

\* Game.update line 221
CarRect(c) ==
  Rect(Trunc(c.x - (length \div 2) * SCALE),
       Trunc(c.y - (width \div 2) * SCALE), length, width)

\* line 224 without the test of line 223
OffTrackPenaltyAlways(c) == RoundDiv(c.speed * PenaltyPercent, 100)

\* Game.update lines 223-224
OffTrackPenalty(c) ==
  IF ~is_on_track(c.x, c.y)
    THEN RoundDiv(c.speed * PenaltyPercent, 100)
    ELSE c.speed

\* line 226 without the test speed > 0
CrossingEventAnySpeed(car_rect, prev_rect, speed) ==
  check_finish_line_cross(car_rect, prev_rect)

\* Game.update line 226
CrossingEvent(car_rect, prev_rect, speed) ==
  check_finish_line_cross(car_rect, prev_rect) /\ speed > 0

\* line 232 with max for min
BestLapMax(best, lap) ==
  Some(Max(IF Truthy(best) THEN best[1] ELSE lap, lap))

\* Game.update line 232: min(self.best_lap_time or lap, lap)
BestLap(best, lap) ==
  Some(Min(IF Truthy(best) THEN best[1] ELSE lap, lap))

\* lines 228-235 with the lap counted on the first crossing too
LapUpdateCountsFirst(st, lt, best, laps, now) ==
  IF st = None
    THEN [start_time |-> Some(now), lap_time |-> lt, best_lap_time |-> best,
          laps_completed |-> laps + 1, lap |-> None]
    ELSE LET lap == now - st[1]
         IN  [start_time |-> Some(now), lap_time |-> lap,
              best_lap_time |-> BestLap(best, lap),
              laps_completed |-> laps + 1, lap |-> Some(lap)]

\* lines 228-235 without line 234: the start timestamp is not reset
LapUpdateKeepsStart(st, lt, best, laps, now) ==
  IF st = None
    THEN [start_time |-> Some(now), lap_time |-> lt, best_lap_time |-> best,
          laps_completed |-> laps, lap |-> None]
    ELSE LET lap == now - st[1]
         IN  [start_time |-> st, lap_time |-> lap,
              best_lap_time |-> BestLap(best, lap),
              laps_completed |-> laps + 1, lap |-> Some(lap)]

\* lines 228-235 with line 235 written -= 1
LapUpdateCountsDown(st, lt, best, laps, now) ==
  IF st = None
    THEN [start_time |-> Some(now), lap_time |-> lt, best_lap_time |-> best,
          laps_completed |-> laps, lap |-> None]
    ELSE LET lap == now - st[1]
         IN  [start_time |-> Some(now), lap_time |-> lap,
              best_lap_time |-> BestLap(best, lap),
              laps_completed |-> laps - 1, lap |-> Some(lap)]

\* Game.update lines 228-235, on a crossing event that reads the clock as now
LapUpdate(st, lt, best, laps, now) ==
  IF st = None
    THEN [start_time |-> Some(now), lap_time |-> lt, best_lap_time |-> best,
          laps_completed |-> laps, lap |-> None]
    ELSE LET lap == now - st[1]
         IN  [start_time |-> Some(now), lap_time |-> lap,
              best_lap_time |-> BestLap(best, lap),
              laps_completed |-> laps + 1, lap |-> Some(lap)]

\* the values time.time() may return next
ClockReadings == { clock + d : d \in (-MaxClockBack)..MaxClockStep }

NoTick == [keys |-> NoKeys, speed |-> 0, color |-> None, on_track |-> TRUE,
           overlap |-> FALSE, entered |-> FALSE, crossing |-> FALSE]

\* Game.update lines 219-226 and 237 on car c and previous rectangle prev:
\* the car after the frame, its rectangle, and what the frame saw
Frame(c, prev, keys) ==
  LET moved    == CarUpdate(c, keys)
      car_rect == CarRect(moved)
      speed    == OffTrackPenalty(moved)
  IN  [car      |-> [moved EXCEPT !.speed = speed],
       car_rect |-> car_rect,
       crossing |-> CrossingEvent(car_rect, prev, speed),
       seen     |-> [keys |-> keys, speed |-> moved.speed,
                     color |-> SampledColor(moved.x, moved.y),
                     on_track |-> is_on_track(moved.x, moved.y),
                     overlap |-> Colliderect(finish_line, car_rect),
                     entered |-> check_finish_line_cross(car_rect, prev),
                     crossing |-> CrossingEvent(car_rect, prev, speed)]]

\* Game.update with line 235 moved out of the test of line 226: every frame
\* that is not a crossing event counts a lap
TickCountsEveryFrame(keys) ==
  LET f == Frame(car, prev_car_rect, keys)
  IN  /\ car' = f.car
      /\ IF f.crossing
           THEN \E now \in ClockReadings :
                  LET u == LapUpdate(start_time, lap_time, best_lap_time,
                                     laps_completed, now)
                  IN  /\ start_time' = u.start_time
                      /\ lap_time' = u.lap_time
                      /\ best_lap_time' = u.best_lap_time
                      /\ laps_completed' = u.laps_completed
                      /\ recorded' = recorded \o u.lap
                      /\ clock' = now
           ELSE /\ laps_completed' = laps_completed + 1
                /\ UNCHANGED <<start_time, lap_time, best_lap_time,
                               recorded, clock>>
      /\ prev_car_rect' = f.car_rect
      /\ ticks' = ticks + 1
      /\ last' = f.seen

\* Game.update, with keys the snapshot pygame.key.get_pressed returns
Tick(keys) ==
  LET f == Frame(car, prev_car_rect, keys)
  IN  /\ car' = f.car
      /\ IF f.crossing
           THEN \E now \in ClockReadings :
                  LET u == LapUpdate(start_time, lap_time, best_lap_time,
                                     laps_completed, now)
                  IN  /\ start_time' = u.start_time
                      /\ lap_time' = u.lap_time
                      /\ best_lap_time' = u.best_lap_time
                      /\ laps_completed' = u.laps_completed
                      /\ recorded' = recorded \o u.lap
                      /\ clock' = now
           ELSE UNCHANGED <<start_time, lap_time, best_lap_time,
                            laps_completed, recorded, clock>>
      /\ prev_car_rect' = f.car_rect
      /\ ticks' = ticks + 1
      /\ last' = f.seen

\* Game.__init__ with line 207 written pygame.Rect(0, 0, 0, 0)
NewGameEmptyRect ==
  [car |-> NewCar(center_path[1][1] * SCALE, (center_path[1][2] + 50) * SCALE),
   prev_car_rect |-> Rect(0, 0, 0, 0),
   crossed |-> FALSE]

\* Game.__init__: the car, and the rectangle of line 207
NewGame ==
  [car |-> NewCar(center_path[1][1] * SCALE, (center_path[1][2] + 50) * SCALE),
   prev_car_rect |-> Rect(center_path[1][1], center_path[1][2] + 50, length, width),
   crossed |-> FALSE]

\* the game whose car and previous rectangle are those of g, with the lap
\* fields of Game.__init__
InitFrom(g) ==
  /\ ~g.crossed
  /\ car = g.car
  /\ prev_car_rect = g.prev_car_rect
  /\ start_time = None
  /\ lap_time = 0
  /\ best_lap_time = None
  /\ laps_completed = 0
  /\ clock = 0
  /\ ticks = 0
  /\ recorded = << >>
  /\ last = NoTick

Init == InitFrom(NewGame)

\* Game.run: one update per frame
Next == ticks < MaxTicks /\ \E keys \in Keys : Tick(keys)

Spec == Init /\ [][Next]_vars

-----------------------------------------------------------------------------
(* Games in mid-run.  Each is the game Game.run reaches from construction  *)
(* when the keys below are held frame after frame; no frame of these runs  *)
(* is a crossing event, so the lap fields are those of construction.       *)

Held(keys, n) == [i \in 1..n |-> keys]

Up == [NoKeys EXCEPT !.up = TRUE]

Down == [NoKeys EXCEPT !.down = TRUE]

UpRight == [NoKeys EXCEPT !.up = TRUE, !.right = TRUE]

UpLeft == [NoKeys EXCEPT !.up = TRUE, !.left = TRUE]

RECURSIVE AfterKeys(_, _)
\* Game.run from game g = [car, prev_car_rect, crossed] through the frames of
\* held, up to the first crossing event
AfterKeys(g, held) ==
  IF g.crossed \/ held = << >> THEN g
  ELSE LET f == Frame(g.car, g.prev_car_rect, Head(held))
       IN  AfterKeys([car |-> f.car, prev_car_rect |-> f.car_rect,
                      crossed |-> f.crossing], Tail(held))

\* at speed on the road: 24 frames accelerating and steering right, 16
\* accelerating, 9 accelerating and steering right
AtSpeed == AfterKeys(NewGame, Held(UpRight, 24) \o Held(Up, 16) \o Held(UpRight, 9))

\* reversing down the finish line: 17 frames braking
Reversing == AfterKeys(NewGame, Held(Down, 17))

\* below the finish line, creeping toward it: 18 frames braking, 20
\* accelerating, 5 coasting
BelowLine == AfterKeys(NewGame, Held(Down, 18) \o Held(Up, 20) \o Held(NoKeys, 5))

\* above the finish line, backing toward it: 71 frames accelerating, 16 braking
AboveLine == AfterKeys(NewGame, Held(Up, 71) \o Held(Down, 16))

InitRun == InitFrom(NewGame) \/ InitFrom(AtSpeed) \/ InitFrom(Reversing)

SpecRun == InitRun /\ [][Next]_vars

\* the snapshots with no steering key held
ThrottleKeys == { keys \in Keys : ~keys.left /\ ~keys.right }

InitLap == InitFrom(BelowLine) \/ InitFrom(AboveLine)

NextLap == ticks < MaxLapTicks /\ \E keys \in ThrottleKeys : Tick(keys)

SpecLap == InitLap /\ [][NextLap]_vars

\* the constructed game and the games around the finish line, throttle only
InitFirst == InitFrom(NewGame) \/ InitLap

SpecFirst == InitFirst /\ [][NextLap]_vars

\* two frames short of the right wall, heading right: 22 frames accelerating
\* and steering right, 70 accelerating
NearRight == AfterKeys(NewGame, Held(UpRight, 22) \o Held(Up, 70))

\* two frames short of the top wall, heading up: 84 frames accelerating
NearTop == AfterKeys(NewGame, Held(Up, 84))

\* two frames short of the bottom wall, heading down: 45 frames accelerating
\* and steering right, 56 accelerating
NearBottom == AfterKeys(NewGame, Held(UpRight, 45) \o Held(Up, 56))

\* two frames short of the left wall, heading left: 22 frames accelerating
\* and steering left, 100 accelerating
NearLeft == AfterKeys(NewGame, Held(UpLeft, 22) \o Held(Up, 100))

InitWall ==
  \/ InitFrom(NearRight) \/ InitFrom(NearTop)
  \/ InitFrom(NearBottom) \/ InitFrom(NearLeft)

SpecWall == InitWall /\ [][Next]_vars

-----------------------------------------------------------------------------
(* Track.is_on_track on its own: lines 188-190 applied to a colour get_at   *)
(* may return.  The channel values are those around the tolerance of each   *)
(* channel of GRAY and WHITE, and the channels of the colours drawn.        *)

Channels == {0, 69, 70, 71, 100, 129, 130, 131, 200, 224, 225, 226, 255}

Colors == { <<r, g, b>> : r \in Channels, g \in Channels, b \in Channels }

\* is_on_track when get_at returns color
Sample(color) ==
  /\ last' = [last EXCEPT !.color = Some(color),
                          !.on_track = on_track_color(color)]
  /\ UNCHANGED <<car, start_time, lap_time, best_lap_time, laps_completed,
                 prev_car_rect, clock, ticks, recorded>>

NextColor == \E color \in Colors : Sample(color)

SpecColor == Init /\ [][NextColor]_vars

-----------------------------------------------------------------------------
(* Properties *)

RECURSIVE MinOf(_)
\* the least element of a non-empty sequence of numbers
MinOf(seq) ==
  IF Len(seq) = 1 THEN seq[1] ELSE Min(Head(seq), MinOf(Tail(seq)))

\* C1: after every call of Game.update the car's speed lies between
\* -max_speed / 2 and max_speed, and so does the speed Car.update left
\* before the off-track penalty.
C1_SpeedInRange ==
  /\ 2 * car.speed >= -max_speed /\ car.speed <= max_speed
  /\ 2 * last.speed >= -max_speed /\ last.speed <= max_speed

\* C1 witness: a frame that accelerated past max_speed and was clamped to it,
\* and the car is on the road, so it keeps that speed.
C1_Witness ==
  ticks > 0 /\ last.keys.up /\ last.on_track /\ car.speed = max_speed

\* C2 as claimed: once a lap is recorded, and no lap is negative (the
\* timestamps read at the crossings never decrease), best_lap_time is the
\* least of the lap durations recorded so far.
C2_BestIsMinOfLaps ==
  (recorded # << >> /\ \A i \in 1..Len(recorded) : recorded[i] >= 0)
    => best_lap_time = Some(MinOf(recorded))

\* C3: a frame that ends with speed <= 0 changes none of laps_completed,
\* start_time, lap_time and best_lap_time, whether or not the car's rectangle
\* newly overlaps the finish line.
C3_NoCrossingUnlessForward ==
  [][car'.speed <= 0 =>
       UNCHANGED <<laps_completed, start_time, lap_time, best_lap_time>>]_vars

\* C3 witness: the car's rectangle newly overlaps the finish line on a frame
\* that ends with negative speed, and no crossing was taken.
C3_Witness ==
  last.entered /\ car.speed < 0 /\ ~last.crossing /\ start_time = None

\* the sign of a number
Sign(v) == IF v > 0 THEN 1 ELSE IF v < 0 THEN -1 ELSE 0

\* C4 as claimed: on a frame with neither accelerate nor brake held, the next
\* speed has the sign of the speed before or is 0, and is exactly 0 when the
\* speed before is within one friction step of 0.
C4_FrictionNeverOvershoots ==
  [][(~last'.keys.up /\ ~last'.keys.down) =>
       /\ Sign(car'.speed) \in {Sign(car.speed), 0}
       /\ Abs(car.speed) <= friction => car'.speed = 0]_vars

\* C5 as claimed: in the run from a new Game that holds accelerate alone, the
\* speed after the frames so far is min(0.15 * frames, max_speed).
C5_AccelerateFromRest ==
  car = AfterKeys(NewGame, Held(Up, ticks)).car
    => car.speed = Min(acceleration * ticks, max_speed)

\* C6: the first crossing event (start_time is None before it) sets start_time
\* to the timestamp read, and leaves laps_completed, lap_time and
\* best_lap_time as they were, recording no lap; before any crossing they
\* hold 0, 0 and None.
C6_FirstCrossingStartsTimer ==
  /\ [][(last'.crossing /\ start_time = None) =>
          /\ start_time' = Some(clock')
          /\ laps_completed' = laps_completed
          /\ lap_time' = lap_time
          /\ best_lap_time' = best_lap_time
          /\ recorded' = recorded]_vars
  /\ [](start_time = None =>
          laps_completed = 0 /\ lap_time = 0 /\ best_lap_time = None)

\* C6 witness: the frame just taken was the first crossing event.
C6_Witness ==
  /\ last.crossing /\ start_time = Some(clock) /\ recorded = << >>
  /\ laps_completed = 0 /\ lap_time = 0 /\ best_lap_time = None

\* C7: a crossing event after the first, read at timestamp now with start
\* timestamp S, sets lap_time to now - S, adds one to laps_completed and sets
\* start_time to now; after the first lap best_lap_time equals lap_time.
C7_LaterCrossingRecordsLap ==
  /\ [][(last'.crossing /\ start_time # None) =>
          /\ lap_time' = clock' - start_time[1]
          /\ laps_completed' = laps_completed + 1
          /\ start_time' = Some(clock')
          /\ recorded' = Append(recorded, clock' - start_time[1])]_vars
  /\ [](laps_completed = 1 => best_lap_time = Some(lap_time))

\* C7 witness: the second crossing came later than the first, and the lap it
\* recorded is the last and the best lap.
C7_Witness ==
  /\ last.crossing /\ laps_completed = 1 /\ lap_time > 0
  /\ best_lap_time = Some(lap_time) /\ start_time = Some(clock)

\* C8: a frame leaves laps_completed unchanged or adds exactly one to it, and
\* laps_completed is never negative.
C8_LapsMonotonic ==
  /\ [][laps_completed' \in {laps_completed, laps_completed + 1}]_vars
  /\ [](laps_completed >= 0)

\* C8 witness: two laps have been completed.
C8_Witness == laps_completed = 2

\* C9: once a lap is completed, best_lap_time is set and is at most lap_time,
\* the last lap's duration.
C9_BestAtMostLast ==
  laps_completed >= 1 => (best_lap_time # None /\ best_lap_time[1] <= lap_time)

\* C9 witness: two laps are recorded and the best lap is shorter than the last.
C9_Witness ==
  Len(recorded) = 2 /\ best_lap_time # None /\ best_lap_time[1] < lap_time

\* C10: on a frame where the speed Car.update computed is 0 or no steer key is
\* held the angle is unchanged; otherwise each held steer key turns by
\* turn_speed, so with one of them held the angle changes by exactly
\* turn_speed whatever the speed, and with both held it does not change.
C10_HeadingChange ==
  [][LET s == last'.speed
         k == last'.keys
         d == car'.angle - car.angle
     IN  /\ (s = 0 \/ (~k.left /\ ~k.right)) => d = 0
         /\ (s # 0 /\ k.left # k.right) => Abs(d) = turn_speed
         /\ (s # 0 /\ k.left /\ k.right) => d = 0]_vars

\* C10 witness: a steer key was held on a frame that left the car at rest,
\* and the angle is still that of construction.
C10_Witness ==
  ticks = 1 /\ last.keys.left /\ ~last.keys.right /\ last.speed = 0 /\ car.angle = 0

\* C11: after every call of Game.update the car's position satisfies
\* 0 <= x <= WIDTH and 0 <= y <= HEIGHT, whatever keys were held.
C11_PositionInField ==
  /\ 0 <= car.x /\ car.x <= WIDTH * SCALE
  /\ 0 <= car.y /\ car.y <= HEIGHT * SCALE

\* C11 witness: the last frame's step led past the right wall and the car was
\* put back on it.
C11_Witness ==
  /\ ticks > 0 /\ car.x = WIDTH * SCALE
  /\ MoveUnclamped(car.x, car.y, car.angle, last.speed).x > WIDTH * SCALE

\* the snapshots with neither accelerate nor brake held
SteerKeys == { keys \in Keys : ~keys.up /\ ~keys.down }

\* cars at rest on the road: at the corners of center_path after the first,
\* heading up, left or right
RestOnRoad ==
  { [x |-> center_path[i][1] * SCALE, y |-> center_path[i][2] * SCALE,
     angle |-> a, speed |-> 0] : i \in 2..8, a \in {0, 88, -92} }

\* C12: a frame that starts at rest with neither accelerate nor brake held
\* leaves speed exactly 0 and position and heading as they were, whatever
\* steer keys are held and whether the car's centre samples on or off the
\* road; so a car at rest stays at rest frame after frame.
C12_RestStaysAtRest ==
  /\ [][(car.speed = 0 /\ last'.keys \in SteerKeys) => car' = car]_vars
  /\ \A c \in RestOnRoad, keys \in SteerKeys :
       is_on_track(c.x, c.y) /\ Frame(c, CarRect(c), keys).car = c

\* C12 witness: three frames after construction, the last with steer right
\* held and sampled off the road, the car is as constructed.
C12_Witness ==
  /\ ticks = 3 /\ last.keys \in SteerKeys /\ last.keys.right /\ ~last.on_track
  /\ car = NewGame.car

\* whether every channel of colour c is within d of that of colour t
ChannelsWithin(c, t, d) == \A i \in 1..3 : Abs(c[i] - t[i]) <= d

EdgeColumns == {-1, 0, WIDTH - 1, WIDTH, WIDTH + 1}

EdgeRows == {-1, 0, HEIGHT - 1, HEIGHT, HEIGHT + 1}

\* C14: for coordinates outside the surface is_on_track answers false; after
\* a frame that left the car's centre outside the surface, as on the right
\* wall (x = WIDTH) or the bottom wall (y = HEIGHT), the frame sampled no
\* colour, answered off-track, applied the penalty to the speed Car.update
\* left and went on to store the car's rectangle.
C14_FailsClosed ==
  /\ \A px \in EdgeColumns, py \in EdgeRows :
       ~InSurface(px, py) => ~is_on_track(px * SCALE, py * SCALE)
  /\ ticks > 0 =>
       /\ (car.x = WIDTH * SCALE \/ car.y = HEIGHT * SCALE) => last.color = None
       /\ last.color = None =>
            /\ ~last.on_track
            /\ car.speed = RoundDiv(last.speed * PenaltyPercent, 100)
            /\ prev_car_rect = CarRect(car)

\* C14 witness: a frame drove the car onto the bottom wall, sampled no colour
\* and slowed the car.
C14_Witness ==
  /\ ticks > 0 /\ car.y = HEIGHT * SCALE /\ last.color = None
  /\ ~last.on_track /\ last.speed > 0 /\ car.speed < last.speed

\* C15: a frame is a crossing event iff the car's rectangle after the frame
\* intersects the finish line, the rectangle stored by the frame before did
\* not, and the speed after the penalty is > 0; every frame stores the car's
\* rectangle in prev_car_rect; so a frame that follows a crossing event is
\* not one, and no frame that starts with the stored rectangle on the finish
\* line is one: a car that stays on the line fires no further event until a
\* frame has left it off the line.
C15_CrossingEvent ==
  [][/\ last'.crossing <=>
          /\ Colliderect(finish_line, CarRect(car'))
          /\ ~Colliderect(finish_line, prev_car_rect)
          /\ car'.speed > 0
     /\ prev_car_rect' = CarRect(car')
     /\ last.crossing => ~last'.crossing
     /\ Colliderect(finish_line, prev_car_rect) => ~last'.crossing]_vars

\* C15 witness: the frame after the first crossing event left the car on the
\* finish line, still moving forward, and was not a crossing event.
C15_Witness ==
  /\ start_time # None /\ laps_completed = 0
  /\ last.overlap /\ ~last.entered /\ ~last.crossing /\ car.speed > 0

\* C16: a frame that is not a crossing event leaves start_time, lap_time,
\* best_lap_time and laps_completed as they were, whatever keys are held,
\* however the car moved and whatever the clock would read.
C16_TimerOnlyOnCrossing ==
  [][~last'.crossing =>
       UNCHANGED <<start_time, lap_time, best_lap_time, laps_completed>>]_vars

\* C16 witness: a lap has been recorded, the frame just taken moved the car
\* and was not a crossing event, and the lap fields are those the crossing
\* left.
C16_Witness ==
  /\ laps_completed = 1 /\ ~last.crossing /\ last.speed # 0
  /\ start_time = Some(clock) /\ lap_time = recorded[1]
  /\ best_lap_time = Some(lap_time)

\* C17: after every frame, the frame answered on-track exactly as
\* is_on_track answers for the position Car.update left the car at; when it
\* answered off-track the speed is 0.95 times the speed Car.update left, when
\* it answered on-track the speed is that speed; and the speed has the sign
\* of the speed Car.update left.
C17_OffTrackPenalty ==
  ticks > 0 =>
    /\ last.on_track <=> is_on_track(car.x, car.y)
    /\ ~last.on_track => car.speed = RoundDiv(last.speed * PenaltyPercent, 100)
    /\ last.on_track => car.speed = last.speed
    /\ Sign(car.speed) = Sign(last.speed)

\* C17 witness: a frame braked a car on the gray road and left it the speed
\* Car.update computed.
C17_Witness ==
  /\ ticks > 0 /\ last.color = Some(GRAY) /\ last.on_track /\ last.keys.down
  /\ car.speed = last.speed /\ car.speed > 0

\* C18: on a frame with exactly one steer key held, where s is the speed
\* Car.update computed on that frame (after throttle, brake or friction and
\* the clamp): steer left changes the angle by +turn_speed when s > 0 and by
\* -turn_speed when s < 0; steer right changes it by -turn_speed when s > 0
\* and by +turn_speed when s < 0.
C18_ReverseFlipsSteering ==
  [][LET s == last'.speed
         k == last'.keys
         d == car'.angle - car.angle
     IN  /\ (k.left /\ ~k.right /\ s > 0) => d = turn_speed
         /\ (k.left /\ ~k.right /\ s < 0) => d = -turn_speed
         /\ (k.right /\ ~k.left /\ s > 0) => d = -turn_speed
         /\ (k.right /\ ~k.left /\ s < 0) => d = turn_speed]_vars

\* C18 witness: the first frame after construction braked from rest with
\* steer right held; the speed Car.update computed is -deceleration and the
\* angle went from 0 to +turn_speed.
C18_Witness ==
  /\ ticks = 1 /\ last.keys.right /\ ~last.keys.left
  /\ last.speed = -deceleration /\ car.angle = turn_speed

\* the pixels of the finish line rectangle
FinishLinePixels ==
  { <<px, py>> : px \in finish_line.x .. (finish_line.x + finish_line.w - 1),
                 py \in finish_line.y .. (finish_line.y + finish_line.h - 1) }

\* C19 as claimed: Track.__init__ draws the finish line rectangle in red over
\* the road (line 163 runs, and the constructor returns), so every pixel of
\* the rectangle samples off-track; and after a frame that leaves the car's
\* centre in the rectangle, as at the start position, the speed is 0.95
\* times the speed Car.update left.
C19_FinishLineDrawnRed ==
  /\ Executed(TrackInit, {}).raised = 0
  /\ \A p \in FinishLinePixels :
       SurfaceColor(p[1], p[2]) = RED /\ ~is_on_track(p[1] * SCALE, p[2] * SCALE)
  /\ (ticks > 0 /\ InRect(Trunc(car.x), Trunc(car.y), finish_line)) =>
       car.speed = RoundDiv(last.speed * PenaltyPercent, 100)

\* C19 in the game once it runs, on the surface lines 127-163 paint with the
\* attributes of lines 123-124: the second and third parts of the claim.
C19_OffTrackOnFinishLine ==
  /\ \A p \in FinishLinePixels :
       SurfaceColor(p[1], p[2]) = RED /\ ~is_on_track(p[1] * SCALE, p[2] * SCALE)
  /\ (ticks > 0 /\ InRect(Trunc(car.x), Trunc(car.y), finish_line)) =>
       car.speed = RoundDiv(last.speed * PenaltyPercent, 100)

====
